---- MODULE Spec2Model ----
(***************************************************************************)
(* Model of examples/focus-gui.py: a CameraHandler object living in a      *)
(* worker QThread (one_shot / continuous / do_next handlers, preview       *)
(* capture, histogram, clipping and focus results) and the MainWindow of   *)
(* the GUI thread (button clicks, display slots, closeEvent).              *)
(***************************************************************************)
EXTENDS Integers, Sequences, FiniteSets, Bags, TLC

(* ------------------------------------------------------------------ *)
(* Bounds of the model                                                 *)
(* ------------------------------------------------------------------ *)
\* number of button clicks the user makes in one run
MaxClicks == 3
\* number of gp_camera_capture_preview calls in one run
MaxCaptures == 2

(* ------------------------------------------------------------------ *)
(* Program constants                                                   *)
(* ------------------------------------------------------------------ *)
\* gp.GP_OK
GP_OK == 0
\* an error code of libgphoto2 (any value below GP_OK)
GP_ERROR == -1
\* priority of a queued slot invocation (Qt.NormalEventPriority)
NormalEventPriority == 0
\* Qt.LowEventPriority
LowEventPriority == -1
\* stop = start + 256: bins of one colour band of image.histogram()
BandSize == 256
\* number of colour bands, for colour in (0xff0000, 0x00ff00, 0x0000ff)
NumBands == 3
\* 98.0 * max(0.0, ...)
BarScale == 98
\* math.log10(y) / 5.0
LogDivisor == 5
\* QtGui.QImage(100, 256, ...)
HistWidth == 100

(* ------------------------------------------------------------------ *)
(* Strings are sequences of characters; str.lower() and `in`           *)
(* ------------------------------------------------------------------ *)
UpperChars == <<"A","B","C","D","E","F","G","H","I","J","K","L","M",
                "N","O","P","Q","R","S","T","U","V","W","X","Y","Z">>
LowerChars == <<"a","b","c","d","e","f","g","h","i","j","k","l","m",
                "n","o","p","q","r","s","t","u","v","w","x","y","z">>

LowerChar(c) ==
    IF \E i \in 1..Len(UpperChars) : UpperChars[i] = c
    THEN LowerChars[CHOOSE i \in 1..Len(UpperChars) : UpperChars[i] = c]
    ELSE c

\* value.lower()
Lower(s) == [i \in 1..Len(s) |-> LowerChar(s[i])]

\* sub in s
Contains(sub, s) ==
    \E i \in 1..(Len(s) - Len(sub) + 1) : SubSeq(s, i, i + Len(sub) - 1) = sub

\* values the 'imageformat' widget can hold
FormatLargeFine == <<"L","a","r","g","e"," ","F","i","n","e"," ","J","P","E","G">>
FormatRAW == <<"R","A","W">>
FormatRawJpeg == <<"R","A","W"," ","+"," ","J","P","E","G">>
FormatNef == <<"N","E","F"," ","(","R","a","w",")">>
FormatLowerRaw == <<"r","a","w">>

\* the config tree read once by get_config: a widget is present (OK >= GP_OK)
\* or the lookup by name fails
Configs ==
    {[imageformat_OK |-> GP_OK, imageformat |-> FormatLargeFine,
      capturesizeclass_OK |-> GP_OK],
     [imageformat_OK |-> GP_ERROR, imageformat |-> <<>>,
      capturesizeclass_OK |-> GP_ERROR],
     [imageformat_OK |-> GP_OK, imageformat |-> FormatRAW,
      capturesizeclass_OK |-> GP_OK],
     [imageformat_OK |-> GP_OK, imageformat |-> FormatRawJpeg,
      capturesizeclass_OK |-> GP_ERROR],
     [imageformat_OK |-> GP_OK, imageformat |-> FormatNef,
      capturesizeclass_OK |-> GP_OK],
     [imageformat_OK |-> GP_OK, imageformat |-> FormatLowerRaw,
      capturesizeclass_OK |-> GP_ERROR]}

LowerRaw_NoLower(value) == Contains(<<"r","a","w">>, value)

\* 'raw' in value.lower()
LooksRaw(value) == Contains(<<"r","a","w">>, Lower(value))

CheckConfig_NotFoundRefuses(cfg) ==
    cfg.imageformat_OK >= GP_OK /\ ~LooksRaw(cfg.imageformat)

\* CameraHandler._check_config
CheckConfig(cfg) ==
    IF cfg.imageformat_OK >= GP_OK
    THEN ~LooksRaw(cfg.imageformat)
    ELSE TRUE

(* ------------------------------------------------------------------ *)
(* Frames: the decoded preview image and the library's statistics      *)
(* ------------------------------------------------------------------ *)
\* A decoded RGB image is the bag of its pixels <<r, g, b>>; h_rms and
\* v_rms are ImageStat.Stat(diff).rms of the horizontally and vertically
\* shifted differences, in hundredths, one entry per band.
Pixel(r, g, b) == <<r, g, b>>

MakeImage(counts) ==
    [p \in {q \in DOMAIN counts : counts[q] > 0} |-> counts[p]]

FrameA ==
    [pix |-> MakeImage((Pixel(255, 0, 0) :> 5) @@ (Pixel(0, 0, 0) :> 2)),
     h_rms |-> <<120, 80, 0>>, v_rms |-> <<30, 45, 0>>]
FrameB ==
    [pix |-> MakeImage((Pixel(255, 255, 0) :> 3) @@ (Pixel(10, 10, 255) :> 400000)),
     h_rms |-> <<250, 10, 5>>, v_rms |-> <<5, 10, 250>>]
\* the frames a preview capture returns in the capture-loop specification
FrameList == <<FrameA, FrameB>>
Frames == {FrameList[i] : i \in 1..Len(FrameList)}

\* the frames of the histogram specification: every non-empty image over
\* four pixel values with these multiplicities
HistPalette == {Pixel(255, 255, 255), Pixel(255, 0, 128), Pixel(0, 128, 128), Pixel(0, 0, 255)}
HistMultiplicities == {0, 1, 7, 300000}
HistFrames ==
    {[pix |-> MakeImage(c), h_rms |-> <<1, 2, 3>>, v_rms |-> <<4, 5, 6>>] :
        c \in {d \in [HistPalette -> HistMultiplicities] : \E q \in HistPalette : d[q] > 0}}

\* a function over 1..n as a list whose items are computed once
ListOf(f, n) == SubSeq(f, 1, n)

RECURSIVE SumCopies(_, _)
SumCopies(S, image) ==
    IF S = {} THEN 0
    ELSE LET p == CHOOSE q \in S : TRUE
         IN image[p] + SumCopies(S \ {p}, image)

\* image.histogram(): the 256 counts of band 0, then of band 1, then of band 2
Histogram(image) ==
    ListOf([i \in 1..(NumBands * BandSize) |->
              LET band == (i - 1) \div BandSize
                  level == (i - 1) % BandSize
              IN SumCopies({p \in DOMAIN image : p[band + 1] = level}, image)],
           NumBands * BandSize)

\* histogram[start:stop]
Slice(list, start, stop) == SubSeq(list, start + 1, stop)

\* max(band_hist)
MaxOf(list) ==
    CHOOSE m \in {list[i] : i \in 1..Len(list)} : \A i \in 1..Len(list) : list[i] <= m

(* ------------------------------------------------------------------ *)
(* math.log10 in fixed point                                           *)
(* ------------------------------------------------------------------ *)
\* mantissas are kept in units of 1/LogScale
LogScale == 1000
\* binary digits of the fractional part of the logarithm
LogBits == 8

RECURSIVE Pow(_, _)
Pow(b, n) == IF n = 0 THEN 1 ELSE b * Pow(b, n - 1)

RECURSIVE Decades(_, _)
\* the largest e with num * 10^e <= den
Decades(num, den) == IF num * 10 <= den THEN 1 + Decades(num * 10, den) ELSE 0

RECURSIVE FracDigits(_, _)
\* the first k binary digits of log10(x / LogScale), 1 <= x / LogScale < 10
FracDigits(x, k) ==
    IF k = 0 THEN 0
    ELSE LET sq == (x * x) \div LogScale
         IN IF sq >= 10 * LogScale
            THEN Pow(2, k - 1) + FracDigits(sq \div 10, k - 1)
            ELSE FracDigits(sq, k - 1)

\* -math.log10(num / den) for 1 <= num <= den, in units of 1/2^LogBits
NegLog10(num, den) ==
    LET e == Decades(num, den)
        mant == (den * LogScale) \div (num * Pow(10, e))
    IN e * Pow(2, LogBits) + FracDigits(mant, LogBits)

BarLength_NoClamp(count, max_value) ==
    LET one == LogDivisor * Pow(2, LogBits)
        len == one - NegLog10(1 + count, max_value)
    IN IF len >= 0 THEN (BarScale * len) \div one
       ELSE -((BarScale * (-len)) \div one)

\* y = float(1 + band_hist[x]) / max_value
\* y = 98.0 * max(0.0, 1.0 + (math.log10(y) / 5.0)), as the int setPixel gets
BarLength(count, max_value) ==
    LET one == LogDivisor * Pow(2, LogBits)
        len == one - NegLog10(1 + count, max_value)
    IN (BarScale * (IF len > 0 THEN len ELSE 0)) \div one

(* ------------------------------------------------------------------ *)
(* CameraHandler._do_capture: the results computed from one frame      *)
(* ------------------------------------------------------------------ *)
\* for colour in (0xff0000, 0x00ff00, 0x0000ff)
Colours == <<16711680, 65280, 255>>

BandHist_Short(histogram, b) ==
    Slice(histogram, (b - 1) * BandSize, (b - 1) * BandSize + BandSize - 1)

\* start = 0 ... stop = start + 256; band_hist = histogram[start:stop]; start = stop
BandHist(histogram, b) ==
    Slice(histogram, (b - 1) * BandSize, (b - 1) * BandSize + BandSize)

\* max_value = float(1 + max(band_hist))
MaxValue(band_hist) == 1 + MaxOf(band_hist)

\* clipping.append(band_hist[-1]), once per colour
Clipping(histogram) ==
    [b \in 1..NumBands |->
        LET band_hist == BandHist(histogram, b) IN band_hist[Len(band_hist)]]

\* the arguments of the q_image.setPixel(y, x, colour) calls of one band,
\* as <<band, band_hist[x], y>>
BandPixelArgs(histogram, b) ==
    LET band_hist == BandHist(histogram, b)
        max_value == MaxValue(band_hist)
        counts == {band_hist[x] : x \in 1..Len(band_hist)}
    IN {<<b, count, BarLength(count, max_value)>> : count \in counts}

SetPixelArgs(histogram) ==
    UNION {BandPixelArgs(histogram, b) : b \in 1..NumBands}

\* one row of the 100 x 256 histogram image after
\* setPixel(y, x, colour); setPixel(y + 1, x, colour) for the three colours
\* in turn: a later colour paints over an earlier one, a column outside the
\* image is not painted
PaintRow(ys) ==
    {<<c, Colours[CHOOSE b \in 1..NumBands :
                    /\ c \in {ys[b], ys[b] + 1}
                    /\ \A b2 \in (b + 1)..NumBands : c \notin {ys[b2], ys[b2] + 1}]>> :
        c \in {d \in 0..(HistWidth - 1) :
                  \E b \in 1..NumBands : d \in {ys[b], ys[b] + 1}}}

\* the columns y of one row x of the histogram image, one per band
RowBars(bands, maxes, x) ==
    ListOf([b \in 1..NumBands |->
              BarLength(IF x <= Len(bands[b]) THEN bands[b][x] ELSE 0, maxes[b])],
           NumBands)

\* the rows of the image whose bins are not all empty
UsedRows(bands) ==
    {x \in 1..BandSize : \E b \in 1..NumBands : x <= Len(bands[b]) /\ bands[b][x] # 0}

PaintImage(bands, maxes) ==
    [empty_rows |-> PaintRow(ListOf([b \in 1..NumBands |-> BarLength(0, maxes[b])],
                                    NumBands)),
     rows |-> [x \in UsedRows(bands) |-> PaintRow(RowBars(bands, maxes, x))]]

\* the histogram image q_image: the painted pixels of the rows whose bins
\* are not all empty, and those of every other row (white elsewhere)
HistImage(histogram) ==
    PaintImage(ListOf([b \in 1..NumBands |-> BandHist(histogram, b)], NumBands),
               ListOf([b \in 1..NumBands |-> MaxValue(BandHist(histogram, b))], NumBands))

\* rms[n] += h_rms[n]
Focus(f) == [n \in 1..Len(f.v_rms) |-> f.v_rms[n] + f.h_rms[n]]

\* what _do_capture computes from a decoded frame: the histogram image
\* (with the arguments of its setPixel calls), the clipping list, the focus
Results(f) ==
    [q_image |-> HistImage(Histogram(f.pix)),
     calls |-> SetPixelArgs(Histogram(f.pix)),
     clipping |-> Clipping(Histogram(f.pix)),
     rms |-> Focus(f)]

\* the results of the frames of FrameList, computed once
FrameResults ==
    ListOf([i \in 1..Len(FrameList) |-> Results(FrameList[i])], Len(FrameList))

ResultsOf(f) ==
    IF \E i \in 1..Len(FrameList) : FrameList[i] = f
    THEN FrameResults[CHOOSE i \in 1..Len(FrameList) : FrameList[i] = f]
    ELSE Results(f)

EmitList_HistogramLast(r, f, buf) ==
    << [signal |-> "new_image", arg |-> [data_ptr |-> buf], published |-> f.pix],
       [signal |-> "new_clipping", arg |-> r.clipping, published |-> f.pix],
       [signal |-> "new_focus", arg |-> r.rms, published |-> f.pix],
       [signal |-> "new_histogram", arg |-> r.q_image, calls |-> r.calls,
        published |-> f.pix] >>

\* the signals _do_capture emits, in order (lines 127, 145, 146, 158);
\* published is the pixel data of the frame at that moment
EmitList(r, f, buf) ==
    << [signal |-> "new_image", arg |-> [data_ptr |-> buf], published |-> f.pix],
       [signal |-> "new_histogram", arg |-> r.q_image, calls |-> r.calls,
        published |-> f.pix],
       [signal |-> "new_clipping", arg |-> r.clipping, published |-> f.pix],
       [signal |-> "new_focus", arg |-> r.rms, published |-> f.pix] >>

Emits(f, buf) == EmitList(ResultsOf(f), f, buf)

(* ------------------------------------------------------------------ *)
(* Formatting of the display texts                                     *)
(* ------------------------------------------------------------------ *)
DigitChars == <<"0","1","2","3","4","5","6","7","8","9">>

RECURSIVE FormatD(_)
\* '{:d}'.format(x), x >= 0
FormatD(n) ==
    IF n < 10 THEN <<DigitChars[n + 1]>>
    ELSE FormatD(n \div 10) \o <<DigitChars[(n % 10) + 1]>>

\* '{:.2f}'.format(x), x >= 0 given in hundredths
Format2f(n) ==
    FormatD(n \div 100) \o <<".">> \o
    <<DigitChars[((n % 100) \div 10) + 1], DigitChars[(n % 10) + 1]>>

RECURSIVE Join(_)
\* ', '.join(texts)
Join(texts) ==
    IF Len(texts) = 0 THEN <<>>
    ELSE IF Len(texts) = 1 THEN texts[1]
    ELSE texts[1] \o <<",", " ">> \o Join(Tail(texts))

(* ------------------------------------------------------------------ *)
(* State                                                               *)
(* ------------------------------------------------------------------ *)
VARIABLES
    config,            \* self.config: the config tree read at construction
    running,           \* self.running
    image_data,        \* self.image_data: <<>> or <<[id, bytes]>>, the only live buffer
    frame,             \* the decoded image of the capture being processed
    queue,             \* posted events of the worker thread (CameraHandler)
    wPc,               \* where the worker thread is
    wHandler,          \* the event the worker thread is handling
    quitFlag,          \* ch_thread.quit() was called
    uiPc,              \* where the GUI thread is
    uiQueue,           \* queued signals waiting for the GUI thread
    image_display,     \* pixmap of self.image_display
    histogram_display, \* pixmap of self.histogram_display
    focus_display,     \* text of self.focus_display
    clipping_display,  \* text of self.clipping_display
    clicks,            \* button clicks made so far
    camera_ops,        \* history: <<camera operation, thread that ran it>>
    captureCalls,      \* history: gp_camera_capture_preview calls made
    capDone,           \* history: _do_capture calls that returned
    exitCount,         \* history: camera.exit calls made
    lastEmits,         \* history: signals emitted by the latest _do_capture
    lastResult,        \* history: "none", "pending", "ok" or "failed"
    stopMark,          \* history: the latest click was handled as a stop request
    doneSinceClick,    \* history: _do_capture calls returned since the latest click
    aheadAtClick,      \* history: commands waiting when the latest click was made
    failedNoClick,     \* history: a capture failed and no click was made since
    failedNoCmd,       \* history: a capture failed and no command was handled since
    image_published    \* history: the published data of the frame last rendered

camVars == <<config, running, image_data, frame, camera_ops>>
workerVars == <<queue, wPc, wHandler, quitFlag>>
uiVars == <<uiPc, uiQueue, clicks>>
displayVars == <<image_display, histogram_display, focus_display, clipping_display,
                 image_published>>
histVars == <<captureCalls, capDone, exitCount, lastEmits, lastResult, stopMark,
              doneSinceClick, aheadAtClick, failedNoClick, failedNoCmd>>
vars == <<camVars, workerVars, uiVars, displayVars, histVars>>

NoEvent == "none"
Garbage == "garbage"
Commands == {"one_shot", "continuous"}

Alive == uiPc \notin {"exited", "crashed"}

PostEvent_Append(q, ev) == Append(q, ev)

\* QApplication.postEvent(receiver, event, priority): events are kept in
\* descending priority order, in posting order within one priority
PostEvent(q, ev) ==
    LET lower == {i \in 1..Len(q) : q[i].priority < ev.priority}
        at == IF lower = {} THEN Len(q) + 1
              ELSE CHOOSE i \in lower : \A j \in lower : i <= j
    IN SubSeq(q, 1, at - 1) \o <<ev>> \o SubSeq(q, at, Len(q))

\* QtCore.QEvent(self.do_next), posted with Qt.LowEventPriority - 1
DoNextEvent ==
    [type |-> "do_next", priority |-> LowEventPriority - 1]

(* ------------------------------------------------------------------ *)
(* Initial state: the process has started, MainWindow() not yet built  *)
(* ------------------------------------------------------------------ *)
InitWith(cfg) ==
    /\ config = cfg
    /\ running = FALSE
    /\ image_data = <<>>
    /\ frame = <<>>
    /\ queue = <<>>
    /\ wPc = "not_started"
    /\ wHandler = NoEvent
    /\ quitFlag = FALSE
    /\ uiPc = "start"
    /\ uiQueue = <<>>
    /\ image_display = <<>>
    /\ histogram_display = <<>>
    /\ focus_display = <<"-", ",", " ", "-", ",", " ", "-">>
    /\ clipping_display = <<"-", ",", " ", "-", ",", " ", "-">>
    /\ clicks = 0
    /\ camera_ops = {}
    /\ captureCalls = 0
    /\ capDone = 0
    /\ exitCount = 0
    /\ lastEmits = <<>>
    /\ lastResult = "none"
    /\ stopMark = FALSE
    /\ doneSinceClick = 0
    /\ aheadAtClick = 0
    /\ failedNoClick = FALSE
    /\ failedNoCmd = FALSE
    /\ image_published = <<>>

Init == \E cfg \in Configs : InitWith(cfg)

(* ------------------------------------------------------------------ *)
(* GUI thread: MainWindow                                              *)
(* ------------------------------------------------------------------ *)
\* the camera calls of CameraHandler.__init__ (lines 64, 66, 76)
InitOps(cfg) ==
    {<<"init", "ui">>, <<"get_config", "ui">>}
    \cup (IF cfg.capturesizeclass_OK >= GP_OK THEN {<<"set_config", "ui">>} ELSE {})

\* MainWindow.__init__: CameraHandler() is built by the GUI thread, then
\* moved to ch_thread, which is started
MainWindowInit ==
    /\ uiPc = "start"
    /\ running' = FALSE
    /\ camera_ops' = camera_ops \cup InitOps(config)
    /\ wPc' = "idle"
    /\ uiPc' = "run"
    /\ UNCHANGED <<config, image_data, frame, queue, wHandler, quitFlag,
                   uiQueue, clicks, displayVars, histVars>>

\* a button's clicked signal, connected to a slot of the object living in
\* ch_thread: a queued call posted to the worker's event queue
Click(slot) ==
    /\ uiPc = "run"
    /\ clicks < MaxClicks
    /\ clicks' = clicks + 1
    /\ queue' = PostEvent(queue, [type |-> slot, priority |-> NormalEventPriority])
    /\ stopMark' = FALSE
    /\ doneSinceClick' = 0
    /\ aheadAtClick' = Cardinality({i \in 1..Len(queue) : queue[i].type \in Commands})
    /\ failedNoClick' = FALSE
    /\ UNCHANGED <<camVars, wPc, wHandler, quitFlag, uiPc, uiQueue, displayVars,
                   captureCalls, capDone, exitCount, lastEmits, lastResult,
                   failedNoCmd>>

ClickOneShot == Click("one_shot")
ClickContinuous == Click("continuous")

\* what reading the pixels of a QImage gives: the bytes of its buffer while
\* self.image_data still holds that buffer; once a later capture has rebound
\* self.image_data the buffer is freed, and the read gives the old bytes, the
\* bytes now kept at that place, anything else, or a fault
ReadImage(ev) ==
    IF image_data # <<>> /\ image_data[1].id = ev.arg.data_ptr
    THEN {<<"pixels", image_data[1].bytes>>}
    ELSE {<<"pixels", ev.published>>, <<Garbage>>, <<"fault">>}
         \cup (IF image_data # <<>> THEN {<<"pixels", image_data[1].bytes>>} ELSE {})

\* MainWindow.new_image
NewImage ==
    /\ uiPc = "run"
    /\ uiQueue # <<>>
    /\ Head(uiQueue).signal = "new_image"
    /\ \E pixels \in ReadImage(Head(uiQueue)) :
          IF pixels = <<"fault">>
          THEN /\ uiPc' = "crashed"
               /\ UNCHANGED <<uiQueue, displayVars>>
          ELSE /\ image_display' = pixels
               /\ image_published' = <<"pixels", Head(uiQueue).published>>
               /\ uiQueue' = Tail(uiQueue)
               /\ UNCHANGED <<uiPc, histogram_display, focus_display, clipping_display>>
    /\ UNCHANGED <<camVars, workerVars, clicks, histVars>>

\* MainWindow.new_histogram
NewHistogram ==
    /\ uiPc = "run"
    /\ uiQueue # <<>>
    /\ Head(uiQueue).signal = "new_histogram"
    /\ histogram_display' = Head(uiQueue).arg
    /\ uiQueue' = Tail(uiQueue)
    /\ UNCHANGED <<camVars, workerVars, uiPc, clicks, image_display, focus_display,
                   clipping_display, image_published, histVars>>

\* MainWindow.new_focus
NewFocus ==
    /\ uiPc = "run"
    /\ uiQueue # <<>>
    /\ Head(uiQueue).signal = "new_focus"
    /\ focus_display' =
          Join([n \in 1..Len(Head(uiQueue).arg) |-> Format2f(Head(uiQueue).arg[n])])
    /\ uiQueue' = Tail(uiQueue)
    /\ UNCHANGED <<camVars, workerVars, uiPc, clicks, image_display, histogram_display,
                   clipping_display, image_published, histVars>>

\* MainWindow.new_clipping
NewClipping ==
    /\ uiPc = "run"
    /\ uiQueue # <<>>
    /\ Head(uiQueue).signal = "new_clipping"
    /\ clipping_display' =
          Join([n \in 1..Len(Head(uiQueue).arg) |-> FormatD(Head(uiQueue).arg[n])])
    /\ uiQueue' = Tail(uiQueue)
    /\ UNCHANGED <<camVars, workerVars, uiPc, clicks, image_display, histogram_display,
                   focus_display, image_published, histVars>>

\* closeEvent -> CameraHandler.shut_down, line 97: self.running = False
ShutDownRunning ==
    /\ uiPc = "run"
    /\ running' = FALSE
    /\ uiPc' = "shut_down"
    /\ UNCHANGED <<config, image_data, frame, camera_ops, workerVars, uiQueue, clicks,
                   displayVars, histVars>>

\* CameraHandler.shut_down, line 98: self.camera.exit(self.context)
ShutDownExit ==
    /\ uiPc = "shut_down"
    /\ camera_ops' = camera_ops \cup {<<"exit", "ui">>}
    /\ exitCount' = exitCount + 1
    /\ uiPc' = "quit"
    /\ UNCHANGED <<config, running, image_data, frame, workerVars, uiQueue, clicks,
                   displayVars, captureCalls, capDone, lastEmits, lastResult, stopMark,
                   doneSinceClick, aheadAtClick, failedNoClick, failedNoCmd>>

\* closeEvent, line 250: self.ch_thread.quit()
ThreadQuit ==
    /\ uiPc = "quit"
    /\ quitFlag' = TRUE
    /\ uiPc' = "wait"
    /\ UNCHANGED <<camVars, queue, wPc, wHandler, uiQueue, clicks, displayVars, histVars>>

WaitDone_NoWait == TRUE

\* ch_thread.wait() returns once the thread has finished
WaitDone == wPc = "terminated"

\* closeEvent, lines 251-252, and the end of app.exec_()
ThreadWait ==
    /\ uiPc = "wait"
    /\ WaitDone
    /\ uiPc' = "exited"
    /\ UNCHANGED <<camVars, workerVars, uiQueue, clicks, displayVars, histVars>>

(* ------------------------------------------------------------------ *)
(* Worker thread: CameraHandler                                        *)
(* ------------------------------------------------------------------ *)
\* the worker's event loop delivers the first posted event to its handler
Deliver(type) ==
    /\ Alive
    /\ wPc = "idle"
    /\ queue # <<>>
    /\ Head(queue).type = type
    /\ queue' = Tail(queue)

\* CameraHandler.event, lines 100-104: a do_next event is accepted and
\* _do_continuous is entered
Event ==
    /\ Deliver("do_next")
    /\ wHandler' = "do_next"
    /\ wPc' = "do_continuous"
    /\ UNCHANGED <<camVars, quitFlag, uiVars, displayVars, histVars>>

\* _do_capture, line 117: gp_camera_capture_preview is called
CallCapture ==
    /\ captureCalls < MaxCaptures
    /\ captureCalls' = captureCalls + 1
    /\ camera_ops' = camera_ops \cup {<<"capture_preview", "worker">>}
    /\ lastEmits' = <<>>
    /\ lastResult' = "pending"
    /\ wPc' = "capture"

Return ==
    /\ wPc' = "idle"
    /\ wHandler' = NoEvent

OneShot_NoRunningCheck ==
    /\ Deliver("one_shot")
    /\ failedNoCmd' = FALSE
    /\ IF ~CheckConfig(config)
       THEN /\ Return
            /\ UNCHANGED <<camera_ops, captureCalls, lastEmits, lastResult>>
       ELSE /\ CallCapture
            /\ wHandler' = "one_shot"
    /\ UNCHANGED <<config, running, image_data, frame, quitFlag, uiVars,
                   displayVars, capDone, exitCount, stopMark, doneSinceClick,
                   aheadAtClick, failedNoClick>>

\* CameraHandler.one_shot, lines 80-84: the queued call of the slot
OneShot ==
    /\ Deliver("one_shot")
    /\ failedNoCmd' = FALSE
    /\ IF running \/ ~CheckConfig(config)
       THEN /\ Return
            /\ UNCHANGED <<camera_ops, captureCalls, lastEmits, lastResult>>
       ELSE /\ CallCapture
            /\ wHandler' = "one_shot"
    /\ UNCHANGED <<config, running, image_data, frame, quitFlag, uiVars,
                   displayVars, capDone, exitCount, stopMark, doneSinceClick,
                   aheadAtClick, failedNoClick>>

\* CameraHandler.continuous, lines 88-94 up to the call of _do_continuous:
\* the queued call of the slot
Continuous ==
    /\ Deliver("continuous")
    /\ failedNoCmd' = FALSE
    /\ IF running
       THEN /\ running' = FALSE
            /\ stopMark' = (\A i \in 1..Len(queue') : queue'[i].type \notin Commands)
            /\ Return
       ELSE IF ~CheckConfig(config)
       THEN /\ Return
            /\ UNCHANGED <<running, stopMark>>
       ELSE /\ running' = TRUE
            /\ wPc' = "do_continuous"
            /\ wHandler' = "continuous"
            /\ UNCHANGED stopMark
    /\ UNCHANGED <<config, image_data, frame, camera_ops, quitFlag, uiVars,
                   displayVars, captureCalls, capDone, exitCount, lastEmits, lastResult,
                   doneSinceClick, aheadAtClick, failedNoClick>>

MayCapture_Always == TRUE

\* _do_continuous, line 108: if not self.running: return
MayCapture == running

\* CameraHandler._do_continuous, lines 108-110 up to the capture call
DoContinuous ==
    /\ Alive
    /\ wPc = "do_continuous"
    /\ IF ~MayCapture
       THEN /\ Return
            /\ UNCHANGED <<camera_ops, captureCalls, lastEmits, lastResult>>
       ELSE /\ CallCapture
            /\ UNCHANGED wHandler
    /\ UNCHANGED <<config, running, image_data, frame, queue, quitFlag, uiVars,
                   displayVars, capDone, exitCount, stopMark, doneSinceClick,
                   aheadAtClick, failedNoClick, failedNoCmd>>

\* where _do_capture returns to: one_shot ends, _do_continuous goes on to
\* line 112
AfterCapture == IF wHandler = "one_shot" THEN "idle" ELSE "post"

RunningAfterFailure_Kept == running

\* line 120: self.running = False
RunningAfterFailure == FALSE

\* the camera_file a successful capture returns: the scene changes from one
\* capture to the next
NextFrame == FrameList[((captureCalls - 1) % Len(FrameList)) + 1]

\* CameraHandler._do_capture, lines 117-121: the capture call returns; on
\* an error the handler gives up, otherwise the file is decoded (122-123)
CaptureReturn ==
    /\ Alive
    /\ wPc = "capture"
    /\ \E OK \in {GP_OK, GP_ERROR} :
          IF OK < GP_OK
          THEN /\ running' = RunningAfterFailure
               /\ capDone' = capDone + 1
               /\ doneSinceClick' = doneSinceClick + 1
               /\ lastResult' = "failed"
               /\ failedNoClick' = TRUE
               /\ failedNoCmd' = TRUE
               /\ wPc' = AfterCapture
               /\ wHandler' = IF AfterCapture = "idle" THEN NoEvent ELSE wHandler
               /\ UNCHANGED frame
          ELSE /\ frame' = <<NextFrame>>
               /\ wPc' = "process"
               /\ UNCHANGED <<running, capDone, doneSinceClick, lastResult,
                              failedNoClick, failedNoCmd, wHandler>>
    /\ UNCHANGED <<config, image_data, camera_ops, queue, quitFlag, uiVars, displayVars,
                   captureCalls, exitCount, lastEmits, stopMark, aheadAtClick>>

\* CameraHandler._do_capture, lines 124-158: the pixel bytes are kept in
\* self.image_data (the buffer it held before is dropped), the results are
\* computed and emitted to the GUI thread
Process ==
    /\ Alive
    /\ wPc = "process"
    /\ image_data' = <<[id |-> captureCalls, bytes |-> frame[1].pix]>>
    /\ uiQueue' = uiQueue \o Emits(frame[1], captureCalls)
    /\ lastEmits' = [i \in 1..(Len(uiQueue') - Len(uiQueue)) |->
                        uiQueue'[Len(uiQueue) + i].signal]
    /\ lastResult' = "ok"
    /\ capDone' = capDone + 1
    /\ doneSinceClick' = doneSinceClick + 1
    /\ frame' = <<>>
    /\ wPc' = AfterCapture
    /\ wHandler' = IF AfterCapture = "idle" THEN NoEvent ELSE wHandler
    /\ UNCHANGED <<config, running, camera_ops, queue, quitFlag, uiPc, clicks,
                   displayVars, captureCalls, exitCount, stopMark, aheadAtClick,
                   failedNoClick, failedNoCmd>>

\* CameraHandler._do_continuous, lines 112-113: post the do_next event
PostNext ==
    /\ Alive
    /\ wPc = "post"
    /\ queue' = PostEvent(queue, DoNextEvent)
    /\ Return
    /\ UNCHANGED <<camVars, quitFlag, uiVars, displayVars, histVars>>

\* the worker's event loop leaves after quit(); events still posted may or
\* may not be delivered before it does
Terminate ==
    /\ Alive
    /\ wPc = "idle"
    /\ quitFlag
    /\ wPc' = "terminated"
    /\ UNCHANGED <<camVars, queue, wHandler, quitFlag, uiVars, displayVars, histVars>>

WorkerNext ==
    \/ Event \/ OneShot \/ Continuous \/ DoContinuous
    \/ CaptureReturn \/ Process \/ PostNext \/ Terminate

UiNext ==
    \/ MainWindowInit \/ ClickOneShot \/ ClickContinuous
    \/ NewImage \/ NewHistogram \/ NewFocus \/ NewClipping
    \/ ShutDownRunning \/ ShutDownExit \/ ThreadQuit \/ ThreadWait

Next == WorkerNext \/ UiNext

Spec == Init /\ [][Next]_vars

(* ------------------------------------------------------------------ *)
(* The capture loop under fair scheduling of the worker thread: its    *)
(* event loop keeps delivering events and a camera call returns        *)
(* ------------------------------------------------------------------ *)
FairSpec == Spec /\ WF_vars(WorkerNext)

(* ------------------------------------------------------------------ *)
(* The results of one capture, for every frame of HistFrames: the      *)
(* program has been started, one-shot was clicked and the capture call *)
(* has returned the frame                                              *)
(* ------------------------------------------------------------------ *)
InitHist ==
    \E f \in HistFrames :
        /\ config = [imageformat_OK |-> GP_OK, imageformat |-> FormatLargeFine,
                     capturesizeclass_OK |-> GP_OK]
        /\ running = FALSE
        /\ image_data = <<>>
        /\ frame = <<f>>
        /\ queue = <<>>
        /\ wPc = "process"
        /\ wHandler = "one_shot"
        /\ quitFlag = FALSE
        /\ uiPc = "run"
        /\ uiQueue = <<>>
        /\ image_display = <<>>
        /\ histogram_display = <<>>
        /\ focus_display = <<"-", ",", " ", "-", ",", " ", "-">>
        /\ clipping_display = <<"-", ",", " ", "-", ",", " ", "-">>
        /\ clicks = 1
        /\ camera_ops = InitOps(config) \cup {<<"capture_preview", "worker">>}
        /\ captureCalls = 1
        /\ capDone = 0
        /\ exitCount = 0
        /\ lastEmits = <<>>
        /\ lastResult = "pending"
        /\ stopMark = FALSE
        /\ doneSinceClick = 0
        /\ aheadAtClick = 0
        /\ failedNoClick = FALSE
        /\ failedNoCmd = FALSE
        /\ image_published = <<>>

NextHist == Process \/ NewImage \/ NewHistogram \/ NewClipping \/ NewFocus

SpecHist == InitHist /\ [][NextHist]_vars

(* ------------------------------------------------------------------ *)
(* Properties                                                          *)
(* ------------------------------------------------------------------ *)
NumDoNext(q) == Cardinality({i \in 1..Len(q) : q[i].type = "do_next"})
NumCommands(q) == Cardinality({i \in 1..Len(q) : q[i].type \in Commands})
AllSignals == <<"new_image", "new_histogram", "new_clipping", "new_focus">>

\* the image format setting is present and its value contains r, a, w in a
\* row, in either case
RawFormat(cfg) ==
    /\ cfg.imageformat_OK >= GP_OK
    /\ \E i \in 1..(Len(cfg.imageformat) - 2) :
          /\ cfg.imageformat[i] \in {"r", "R"}
          /\ cfg.imageformat[i + 1] \in {"a", "A"}
          /\ cfg.imageformat[i + 2] \in {"w", "W"}

\* C1: under a config whose image format is RAW, whatever commands are
\* issued, capture_preview is never called and running stays False.
C1_RawNeverCaptures ==
    RawFormat(config) =>
        /\ captureCalls = 0
        /\ <<"capture_preview", "worker">> \notin camera_ops
        /\ running = FALSE

\* the format is "RAW" in capitals, every click has been made and the
\* worker has handled them all
C1_Witness ==
    /\ config.imageformat = FormatRAW
    /\ clicks = MaxClicks
    /\ queue = <<>>
    /\ wPc = "idle"
    /\ uiPc = "run"

C3_Sequential ==
    [][ /\ captureCalls' - capDone' \in {0, 1}
        /\ (captureCalls' # captureCalls \/ NumDoNext(queue') > NumDoNext(queue))
              => /\ captureCalls = capDone
                 /\ lastResult # "pending"
                 /\ lastResult = "ok" => lastEmits = AllSignals ]_vars

\* a second capture is in flight after a first one that succeeded in
\* continuous mode
C3_Witness ==
    /\ captureCalls = 2
    /\ wPc = "capture"
    /\ wHandler = "do_next"
    /\ Len(uiQueue) + (IF image_published = <<>> THEN 0 ELSE 1) >= 1

\* a capture_preview call returns an error in this step
FailureStep == capDone' = capDone + 1 /\ lastResult' = "failed"

\* what a failure does at once: nothing is emitted, running is cleared, a
\* single shot is over
FailureEffect ==
    FailureStep =>
        /\ uiQueue' = uiQueue
        /\ lastEmits' = <<>>
        /\ running' = FALSE
        /\ wHandler = "one_shot" => wPc' = "idle"

\* C4 as stated: a failed capture emits nothing, clears running, ends a
\* single shot, and no capture call is made until the user clicks one-shot
\* or continuous again.
C4_NoCaptureUntilNewClick ==
    [][ /\ FailureEffect
        /\ failedNoClick => captureCalls' = captureCalls ]_vars

\* C4 amended: ... and no capture call is made until the worker handles a
\* one-shot or continuous command (one clicked after the failure, or one
\* that was already waiting in its queue).
C4_NoCaptureUntilCommand ==
    [][ /\ FailureEffect
        /\ (failedNoCmd /\ failedNoCmd') => captureCalls' = captureCalls ]_vars

\* after a failure in continuous mode the posted do_next has been
\* delivered, and no command since
C4_Witness ==
    /\ failedNoCmd
    /\ lastResult = "failed"
    /\ wHandler = "do_next"
    /\ wPc = "do_continuous"

\* C5: every camera operation is run by the worker thread and none by the
\* GUI thread, so camera.exit never runs while a capture call is in flight.
C5_WorkerConfined ==
    /\ \A op \in camera_ops : op[2] = "worker"
    /\ ~(uiPc = "quit" /\ wPc = "capture")

CommandsFirst ==
    \A i \in 1..Len(queue) : \A j \in 1..Len(queue) :
        (i < j /\ queue[i].type = "do_next") => queue[j].type = "do_next"

\* the user has asked for a stop or a shutdown, or the process is gone
StopAsked ==
    \/ uiPc # "run"
    \/ \E i \in 1..Len(queue) : queue[i].type = "continuous"

\* C7: in continuous mode every completed capture is followed by a posted
\* do_next event, a command queued during a capture is delivered before
\* that event, and while running stays true, captures succeed and no stop
\* or shutdown is asked for, another capture follows.
C7_SelfRescheduling ==
    /\ []CommandsFirst
    /\ [][(wPc = "post" /\ wPc' # "post")
             => /\ NumDoNext(queue') = NumDoNext(queue) + 1
                /\ wPc' = "idle"]_vars
    /\ \A n \in 1..(MaxCaptures - 1) :
          (wPc = "post" /\ lastResult = "ok" /\ running /\ captureCalls = n)
             ~> (captureCalls > n \/ ~running \/ StopAsked)

\* a one-shot command queued during a continuous capture waits in front of
\* the do_next event posted after that capture
C7_Witness ==
    /\ running
    /\ Len(queue) = 2
    /\ queue[1].type = "one_shot"
    /\ queue[2].type = "do_next"
    /\ lastResult = "ok"
    /\ captureCalls < MaxCaptures

\* C8: the pixel data of a frame that was emitted and is not yet rendered
\* is not released by a later capture, and what the GUI thread renders is
\* the data the frame had when it was published.
C8_CopySemantics ==
    /\ \A i \in 1..Len(uiQueue) :
          uiQueue[i].signal = "new_image"
             => image_data # <<>> /\ image_data[1].id = uiQueue[i].arg.data_ptr
    /\ image_display = image_published
    /\ uiPc # "crashed"

\* the number of pixels of an image whose band b has the top level 255
TopLevelPixels(image, b) ==
    SumCopies({p \in DOMAIN image : p[b] = BandSize - 1}, image)

\* C9: the emitted clipping list has three entries, the counts of the top
\* bin (index 255) of the red, green and blue histograms of the frame.
C9_ClippingIsTopBin ==
    \A i \in 1..Len(uiQueue) :
        uiQueue[i].signal = "new_clipping"
           => /\ Len(uiQueue[i].arg) = 3
              /\ \A b \in 1..3 :
                    uiQueue[i].arg[b] = TopLevelPixels(uiQueue[i].published, b)

\* a clipping list with three different counts, none of them zero, waits
\* for the GUI thread
C9_Witness ==
    \E i \in 1..Len(uiQueue) :
        /\ uiQueue[i].signal = "new_clipping"
        /\ uiQueue[i].arg[2] > 0
        /\ uiQueue[i].arg[1] > uiQueue[i].arg[2]
        /\ uiQueue[i].arg[3] > uiQueue[i].arg[1]

\* C10: every bar length is in 0..98, so columns y and y + 1 are inside the
\* 100 pixel wide image, and within a band a bin with a higher count
\* (counts above 0) never gets a shorter bar.
C10_BarsMonotonicInRange ==
    \A i \in 1..Len(uiQueue) :
        uiQueue[i].signal = "new_histogram"
           => /\ \A t \in uiQueue[i].calls :
                    /\ t[3] >= 0
                    /\ t[3] <= 98
                    /\ t[3] + 1 <= HistWidth - 1
              /\ \A t \in uiQueue[i].calls : \A u \in uiQueue[i].calls :
                    (t[1] = u[1] /\ 0 < t[2] /\ t[2] <= u[2]) => t[3] <= u[3]

\* one band has a non-empty bin whose bar is clamped to 0, a bin with a bar
\* in between and the fullest bin with the bar of length 98
C10_Witness ==
    \E i \in 1..Len(uiQueue) :
        /\ uiQueue[i].signal = "new_histogram"
        /\ \E t \in uiQueue[i].calls : \E u \in uiQueue[i].calls :
           \E v \in uiQueue[i].calls :
              /\ t[1] = u[1] /\ u[1] = v[1]
              /\ 0 < t[2] /\ t[2] < u[2] /\ u[2] < v[2]
              /\ t[3] = 0 /\ 0 < u[3] /\ u[3] < v[3] /\ v[3] = 98

\* the worker takes a one-shot or continuous command from its queue while
\* running is False
CommandStep ==
    /\ wPc = "idle"
    /\ queue # <<>>
    /\ queue' = Tail(queue)
    /\ Head(queue).type \in Commands
    /\ ~running

\* C11: when 'capturesizeclass' is not found, initialisation completes and
\* set_config is never called; when 'imageformat' is not found,
\* _check_config returns True and a one-shot command calls capture_preview,
\* a continuous command sets running and enters _do_continuous.
C11_LookupSkipped ==
    /\ [](config.capturesizeclass_OK < GP_OK
            => /\ \A op \in camera_ops : op[1] # "set_config"
               /\ uiPc # "start" =>
                     /\ wPc # "not_started"
                     /\ \E op \in camera_ops : op[1] = "get_config")
    /\ [][(config.imageformat_OK < GP_OK /\ CommandStep)
             => IF Head(queue).type = "one_shot"
                THEN captureCalls' = captureCalls + 1 /\ wPc' = "capture"
                ELSE running' /\ wPc' = "do_continuous"]_vars

\* neither setting was found, and a one-shot and a continuous command have
\* both made their capture calls
C11_Witness ==
    /\ config.imageformat_OK < GP_OK
    /\ config.capturesizeclass_OK < GP_OK
    /\ captureCalls = 2
    /\ running
    /\ wHandler = "continuous"
    /\ wPc = "capture"

\* a do_next event is posted in this step
PostStep == NumDoNext(queue') > NumDoNext(queue)

\* C12: a do_next event is posted only if running is true at the
\* moment of posting, and never after a capture that failed.
C12_PostOnlyWhileRunning ==
    [][PostStep => (running /\ lastResult # "failed")]_vars

\* C13: at most one do_next event is pending in the worker's queue.
C13_OneChain == NumDoNext(queue) <= 1

\* C14: once camera.exit has run, no capture_preview call is in progress
\* or started.
C14_NoCaptureAfterExit == exitCount > 0 => wPc # "capture"

\* the worker takes a one-shot command from its queue while running is True
OneShotWhileRunning ==
    /\ wPc = "idle"
    /\ queue # <<>>
    /\ queue' = Tail(queue)
    /\ Head(queue).type = "one_shot"
    /\ running

\* C15: one_shot() handled while running is True makes no capture call,
\* emits nothing, posts nothing and leaves running True.
C15_OneShotNoOp ==
    [][OneShotWhileRunning
          => /\ captureCalls' = captureCalls
             /\ camera_ops' = camera_ops
             /\ uiQueue' = uiQueue
             /\ queue' = Tail(queue)
             /\ running'
             /\ image_data' = image_data
             /\ wPc' = "idle"]_vars

\* continuous was clicked, then one-shot; both were handled, one capture
\* was made, and the chain goes on: running is True and its do_next waits
C15_Witness ==
    /\ clicks = 2
    /\ captureCalls = 1
    /\ running
    /\ wPc = "idle"
    /\ NumDoNext(queue) = 1
    /\ Len(queue) = 1
    /\ uiPc = "run"

====
